---- MODULE Spec2Model ----
(***************************************************************************)
(* Model of the book-price matching-and-ledger engine                      *)
(* (src/src/book_prices/storage/sqlite.py) and of the ingestion loop that  *)
(* drives it (src/src/book_prices/jobs/run_scrape.py).                     *)
(*                                                                         *)
(* Values.  A nullable value (Python None / SQL NULL) is NULL == <<>>, a   *)
(* present value v is Val(v) == <<v>>.  A Python str whose characters      *)
(* matter (a title) is a sequence of characters; a character is a one      *)
(* character string, or a short name for a non-ASCII one.  Keys (isbn,     *)
(* store, store product id, url) are opaque strings; "" is the empty one.  *)
(* A price is a whole number of minor units: the REAL column stores the    *)
(* Python float exactly, so the code's float comparison is an exact one.   *)
(*                                                                         *)
(* Surrogate ids.  A table is the sequence of its rows in insertion order  *)
(* and a row's id is its position.  AUTOINCREMENT ids are strictly         *)
(* increasing in insertion order (with gaps); no operation of the store    *)
(* depends on more than their order and their identity.                    *)
(*                                                                         *)
(* Clock.  datetime('now') has a resolution of one second and is taken     *)
(* never to run backwards.                                                 *)
(***************************************************************************)
EXTENDS Integers, Sequences, FiniteSets, TLC

NULL == <<>>

Val(v) == <<v>>

Get(o) == o[1]

\* SQL COALESCE(a, b)
Coalesce(a, b) == IF a # NULL THEN a ELSE b

(***************************************************************************)
(* title_norm                                                              *)
(***************************************************************************)
\* characters str.strip() and the regex class \s treat as whitespace
Whitespace == {" ", "\t"}

\* the characters of the class of line 14, by name where TLA+ cannot quote them
Quotes == {"'", "dquote", "backtick", "ldquo", "rdquo", "bdquo", "rsquo"}

Brackets == {"(", ")", "[", "]", "{", "}"}

\* the characters the regex of line 16 keeps: 0-9a-zA-Z, the Georgian block
\* U+10A0-U+10FF, the Cyrillic block U+0400-U+04FF, whitespace
Kept == {"a", "b", "A", "B", "7", "cyr_ie", "cyr_io", "CYR_IO", "geo_an", "GEO_AN"} \cup Whitespace

\* str.lower(), per character.  U+10A0 (GEO_AN) lowers to U+2D00 (nus_an),
\* which lies outside the Georgian block.
LowerChar(c) ==
    CASE c = "A" -> "a"
      [] c = "B" -> "b"
      [] c = "CYR_IO" -> "cyr_io"
      [] c = "GEO_AN" -> "nus_an"
      [] OTHER -> c

RECURSIVE LStrip(_)
LStrip(s) ==
    IF s # <<>> /\ Head(s) \in Whitespace THEN LStrip(Tail(s)) ELSE s

RECURSIVE RStrip(_)
RStrip(s) ==
    IF s # <<>> /\ s[Len(s)] \in Whitespace THEN RStrip(SubSeq(s, 1, Len(s) - 1)) ELSE s

\* str.strip()
Strip(s) == RStrip(LStrip(s))

\* re.sub(r"[class]", "", s)
RECURSIVE RemoveChars(_, _)
RemoveChars(s, class) ==
    IF s = <<>> THEN <<>>
    ELSE IF Head(s) \in class THEN RemoveChars(Tail(s), class)
    ELSE <<Head(s)>> \o RemoveChars(Tail(s), class)

IsBracket(c) == c \in Brackets

NotKept(c) == c \notin Kept

IsWhitespace(c) == c \in Whitespace

\* re.sub(r"[^...]+", " ", s), line 16: every maximal run of characters
\* that are not kept becomes one space
RECURSIVE NotKeptToSpace(_, _)
NotKeptToSpace(s, inRun) ==
    IF s = <<>> THEN <<>>
    ELSE IF NotKept(Head(s))
         THEN (IF inRun THEN <<>> ELSE <<" ">>) \o NotKeptToSpace(Tail(s), TRUE)
         ELSE <<Head(s)>> \o NotKeptToSpace(Tail(s), FALSE)

\* re.sub(r"\s+", " ", s), line 17: every maximal run of whitespace becomes
\* one space
RECURSIVE WhitespaceToSpace(_, _)
WhitespaceToSpace(s, inRun) ==
    IF s = <<>> THEN <<>>
    ELSE IF IsWhitespace(Head(s))
         THEN (IF inRun THEN <<>> ELSE <<" ">>) \o WhitespaceToSpace(Tail(s), TRUE)
         ELSE <<Head(s)>> \o WhitespaceToSpace(Tail(s), FALSE)

FoldIo(c) == IF c = "cyr_io" THEN "cyr_ie" ELSE c

BracketToSpace(c) == IF IsBracket(c) THEN " " ELSE c

\* a variant of title_norm: without the .strip() of line 17
title_norm_unstripped(s) ==
    IF s = NULL \/ Get(s) = <<>> THEN NULL
    ELSE LET t0 == Strip(Get(s))
             t1 == [i \in 1..Len(t0) |-> LowerChar(t0[i])]
             t2 == [i \in 1..Len(t1) |-> FoldIo(t1[i])]
             t3 == RemoveChars(t2, Quotes)
             t4 == [i \in 1..Len(t3) |-> BracketToSpace(t3[i])]
             t5 == NotKeptToSpace(t4, FALSE)
             t6 == WhitespaceToSpace(t5, FALSE)
         IN  IF t6 = <<>> THEN NULL ELSE Val(t6)

\* title_norm(s): s is NULL or Val(sequence of characters)
title_norm(s) ==
    IF s = NULL \/ Get(s) = <<>> THEN NULL
    ELSE LET t0 == Strip(Get(s))
             t1 == [i \in 1..Len(t0) |-> LowerChar(t0[i])]
             t2 == [i \in 1..Len(t1) |-> FoldIo(t1[i])]
             t3 == RemoveChars(t2, Quotes)
             t4 == [i \in 1..Len(t3) |-> BracketToSpace(t3[i])]
             t5 == NotKeptToSpace(t4, FALSE)
             t6 == Strip(WhitespaceToSpace(t5, FALSE))
         IN  IF t6 = <<>> THEN NULL ELSE Val(t6)

(***************************************************************************)
(* The three relations and the statements of SqliteStore.  The created_at  *)
(* columns of books and store_products are written once and read by no     *)
(* statement; they are left out.                                           *)
(***************************************************************************)
EmptyDb == [books |-> <<>>, store_products |-> <<>>, offers |-> <<>>]

Min(S) == CHOOSE x \in S : \A y \in S : x <= y

\* SELECT id FROM books WHERE isbn13 = ? ... fetchone()
BookRowId(d, isbn13) == Min({i \in DOMAIN d.books : d.books[i].isbn13 = isbn13})

\* a variant of UpsertBookRows: SET title = excluded.title,
\* title_norm = excluded.title_norm, without the COALESCE
UpsertBookRowsOverwrite(books, isbn13, title, tnorm) ==
    IF \E i \in DOMAIN books : books[i].isbn13 = isbn13
    THEN [i \in DOMAIN books |->
            IF books[i].isbn13 = isbn13
            THEN [isbn13 |-> isbn13, title |-> title, title_norm |-> tnorm]
            ELSE books[i]]
    ELSE Append(books, [isbn13 |-> isbn13, title |-> title, title_norm |-> tnorm])

\* a variant of UpsertBookRows: a plain INSERT into a table without the
\* UNIQUE constraint on isbn13
UpsertBookRowsInsert(books, isbn13, title, tnorm) ==
    Append(books, [isbn13 |-> isbn13, title |-> title, title_norm |-> tnorm])

\* INSERT INTO books ... ON CONFLICT(isbn13) DO UPDATE SET
\*   title = COALESCE(excluded.title, books.title),
\*   title_norm = COALESCE(excluded.title_norm, books.title_norm)
UpsertBookRows(books, isbn13, title, tnorm) ==
    IF \E i \in DOMAIN books : books[i].isbn13 = isbn13
    THEN [i \in DOMAIN books |->
            IF books[i].isbn13 = isbn13
            THEN [isbn13 |-> isbn13,
                  title |-> Coalesce(title, books[i].title),
                  title_norm |-> Coalesce(tnorm, books[i].title_norm)]
            ELSE books[i]]
    ELSE Append(books, [isbn13 |-> isbn13, title |-> title, title_norm |-> tnorm])

\* _upsert_book: the database after it and the id it returns
\* (an operator's argument is evaluated once, however often it is used)
BookResult(d1, isbn13) == [db |-> d1, id |-> BookRowId(d1, isbn13)]

upsert_book(d, isbn13, title) ==
    BookResult([d EXCEPT !.books = UpsertBookRows(d.books, isbn13, title, title_norm(title))],
               isbn13)

\* SELECT id FROM store_products WHERE store=? AND store_product_id=?
StoreProductRowId(d, store, spid) ==
    Min({i \in DOMAIN d.store_products :
            d.store_products[i].store = store /\ d.store_products[i].store_product_id = spid})

\* store_products.url is NOT NULL: the INSERT of _upsert_store_product raises
\* sqlite3.IntegrityError for a url of None, on the insert and on the update path
StoreProductRaises(url) == url = NULL

\* a variant of UpsertStoreProductRows: SET book_id = excluded.book_id,
\* without the COALESCE
UpsertStoreProductRowsOverwrite(sps, store, spid, url, book_id) ==
    IF \E i \in DOMAIN sps : sps[i].store = store /\ sps[i].store_product_id = spid
    THEN [i \in DOMAIN sps |->
            IF sps[i].store = store /\ sps[i].store_product_id = spid
            THEN [store |-> store, store_product_id |-> spid, url |-> url,
                  book_id |-> book_id]
            ELSE sps[i]]
    ELSE Append(sps, [store |-> store, store_product_id |-> spid, url |-> url,
                      book_id |-> book_id])

\* a variant of UpsertStoreProductRows: a plain INSERT into a table without
\* the UNIQUE(store, store_product_id) constraint
UpsertStoreProductRowsInsert(sps, store, spid, url, book_id) ==
    Append(sps, [store |-> store, store_product_id |-> spid, url |-> url,
                 book_id |-> book_id])

\* INSERT INTO store_products ... ON CONFLICT(store, store_product_id) DO UPDATE SET
\*   url = excluded.url, book_id = COALESCE(excluded.book_id, store_products.book_id)
UpsertStoreProductRows(sps, store, spid, url, book_id) ==
    IF \E i \in DOMAIN sps : sps[i].store = store /\ sps[i].store_product_id = spid
    THEN [i \in DOMAIN sps |->
            IF sps[i].store = store /\ sps[i].store_product_id = spid
            THEN [store |-> store, store_product_id |-> spid, url |-> url,
                  book_id |-> Coalesce(book_id, sps[i].book_id)]
            ELSE sps[i]]
    ELSE Append(sps, [store |-> store, store_product_id |-> spid, url |-> url,
                      book_id |-> book_id])

\* _upsert_store_product, for a url that is not None
StoreProductResult(d1, store, spid) == [db |-> d1, id |-> StoreProductRowId(d1, store, spid)]

upsert_store_product(d, store, spid, url, book_id) ==
    StoreProductResult([d EXCEPT !.store_products =
                           UpsertStoreProductRows(d.store_products, store, spid, Get(url),
                                                  book_id)],
                       store, spid)

OffersOf(d, sp_id) == {i \in DOMAIN d.offers : d.offers[i].store_product_id = sp_id}

\* ORDER BY captured_at DESC, id DESC: i comes before j
NewerOffer(d, i, j) ==
    \/ d.offers[i].captured_at > d.offers[j].captured_at
    \/ d.offers[i].captured_at = d.offers[j].captured_at /\ i >= j

\* the id of the row _last_offer selects; 0 when the product has no offer
LastOfferId(d, sp_id) ==
    IF OffersOf(d, sp_id) = {} THEN 0
    ELSE CHOOSE i \in OffersOf(d, sp_id) : \A j \in OffersOf(d, sp_id) : NewerOffer(d, i, j)

\* _last_offer: None, or the row (price_gel, in_stock)
LastOfferRow(d, i) ==
    IF i = 0 THEN NULL
    ELSE Val([price_gel |-> d.offers[i].price_gel, in_stock |-> d.offers[i].in_stock])

last_offer(d, sp_id) == LastOfferRow(d, LastOfferId(d, sp_id))

\* None if offer.in_stock is None else (1 if offer.in_stock else 0)
CurStock(in_stock) ==
    IF in_stock = NULL THEN NULL ELSE Val(IF Get(in_stock) THEN 1 ELSE 0)

\* a variant of Changed: NULL compared as SQL compares it, never equal to NULL
ChangedNullUnequal(last, offer) ==
    IF last = NULL THEN TRUE
    ELSE \/ offer.price_gel = NULL
         \/ offer.in_stock = NULL
         \/ Get(last).price_gel # offer.price_gel
         \/ Get(last).in_stock # CurStock(offer.in_stock)

\* a variant of Changed: the price compared, the stock not
ChangedPriceOnly(last, offer) ==
    IF last = NULL THEN TRUE ELSE Get(last).price_gel # offer.price_gel

\* lines 137-143: changed, given the row _last_offer returned
Changed(last, offer) ==
    IF last = NULL THEN TRUE
    ELSE Get(last).price_gel # offer.price_gel \/ Get(last).in_stock # CurStock(offer.in_stock)

\* a variant of InsertOffer: the latest row of the store product is updated
\* in place when there is one
InsertOfferInPlace(d, sp_id, offer, t) ==
    IF LastOfferId(d, sp_id) = 0
    THEN [d EXCEPT !.offers = Append(@, [store_product_id |-> sp_id, captured_at |-> t,
                                         price_gel |-> offer.price_gel,
                                         in_stock |-> CurStock(offer.in_stock)])]
    ELSE [d EXCEPT !.offers[LastOfferId(d, sp_id)] =
                       [store_product_id |-> sp_id, captured_at |-> t,
                        price_gel |-> offer.price_gel,
                        in_stock |-> CurStock(offer.in_stock)]]

\* INSERT INTO offers(store_product_id, price_gel, in_stock); captured_at
\* defaults to datetime('now')
InsertOffer(d, sp_id, offer, t) ==
    [d EXCEPT !.offers = Append(@, [store_product_id |-> sp_id, captured_at |-> t,
                                    price_gel |-> offer.price_gel,
                                    in_stock |-> CurStock(offer.in_stock)])]

\* a variant of HasIsbn: `if offer.isbn is not None:`
HasIsbnNotNone(offer) == offer.isbn # NULL

\* `if offer.isbn:`: neither None nor the empty string
HasIsbn(offer) == offer.isbn # NULL /\ Get(offer.isbn) # ""

\* lines 124-126 of upsert_offer
WithBookId(r) == [db |-> r.db, book_id |-> Val(r.id)]

BookStep(d, offer) ==
    IF HasIsbn(offer)
    THEN WithBookId(upsert_book(d, Get(offer.isbn), offer.title))
    ELSE [db |-> d, book_id |-> NULL]

\* a variant of OfferStep: the INSERT without the `if changed:`
OfferStepAlways(d, sp_id, offer, t) == InsertOffer(d, sp_id, offer, t)

\* a variant of OfferStep: a store product's first sighting, with no row to
\* compare with, inserts nothing
OfferStepKnownOnly(d, sp_id, offer, t) ==
    IF last_offer(d, sp_id) # NULL /\ Changed(last_offer(d, sp_id), offer)
    THEN InsertOffer(d, sp_id, offer, t)
    ELSE d

\* lines 135-153 of upsert_offer
OfferStep(d, sp_id, offer, t) ==
    IF Changed(last_offer(d, sp_id), offer) THEN InsertOffer(d, sp_id, offer, t) ELSE d

\* upsert_offer between BEGIN and commit, at clock reading t: the database it
\* has written when it stops, and whether it stopped by raising
StoreProductStep(b, offer) ==
    upsert_store_product(b.db, offer.store, offer.store_product_id, offer.url, b.book_id)

AfterStoreProduct(sp, offer, t) == [db |-> OfferStep(sp.db, sp.id, offer, t), raised |-> "none"]

AfterBook(b, offer, t) ==
    IF StoreProductRaises(offer.url)
    THEN [db |-> b.db, raised |-> "IntegrityError"]
    ELSE AfterStoreProduct(StoreProductStep(b, offer), offer, t)

UpsertOfferBody(d, offer, t) == AfterBook(BookStep(d, offer), offer, t)

(***************************************************************************)
(* get_book_by_isbn                                                        *)
(***************************************************************************)
Max(S) == CHOOSE x \in S : \A y \in S : x >= y

\* the subquery `latest`: MAX(captured_at) of a store product's offers
MaxCapturedAt(d, sp_id) == Max({d.offers[i].captured_at : i \in OffersOf(d, sp_id)})

\* a variant of JoinedOffers: the two JOINs without the WHERE sp.book_id = ?
JoinedOffersAnyBook(d, book_id) ==
    {i \in DOMAIN d.offers :
        d.offers[i].captured_at = MaxCapturedAt(d, d.offers[i].store_product_id)}

\* the offers rows the two JOINs and the WHERE of lines 163-176 keep
JoinedOffers(d, book_id) ==
    {i \in DOMAIN d.offers :
        /\ d.store_products[d.offers[i].store_product_id].book_id = Val(book_id)
        /\ d.offers[i].captured_at = MaxCapturedAt(d, d.offers[i].store_product_id)}

\* the columns selected for offers row i
OfferRow(d, i) ==
    [store |-> d.store_products[d.offers[i].store_product_id].store,
     url |-> d.store_products[d.offers[i].store_product_id].url,
     price_gel |-> d.offers[i].price_gel,
     in_stock |-> d.offers[i].in_stock,
     captured_at |-> d.offers[i].captured_at]

\* ORDER BY (o.in_stock IS NULL) ASC, o.in_stock DESC, o.price_gel ASC as a
\* triple of numbers to sort ascending.  SQLite orders NULL before every
\* value, so a NULL price_gel is first under ASC.
OrderKey(row) ==
    <<IF row.in_stock = NULL THEN 1 ELSE 0,
      IF row.in_stock = NULL THEN 2 ELSE 1 - Get(row.in_stock),
      IF row.price_gel = NULL THEN -1 ELSE Get(row.price_gel)>>

KeyLess(a, b) ==
    \/ a[1] < b[1]
    \/ a[1] = b[1] /\ a[2] < b[2]
    \/ a[1] = b[1] /\ a[2] = b[2] /\ a[3] < b[3]

\* the orders in which the rows S may come back: sorted by the key, rows of
\* equal key in any order (SQL leaves it open)
Orderings(d, S) ==
    {f \in [1..Cardinality(S) -> S] :
        /\ \A i, j \in DOMAIN f : i # j => f[i] # f[j]
        /\ \A i, j \in DOMAIN f :
              i < j => ~KeyLess(OrderKey(OfferRow(d, f[j])), OrderKey(OfferRow(d, f[i])))}

BookDict(d, id) ==
    [id |-> id, isbn13 |-> d.books[id].isbn13, title |-> d.books[id].title,
     title_norm |-> d.books[id].title_norm]

\* the second statement of get_book_by_isbn, for the book row the first
\* found: the lists of offers it may return
OffersResults(d, book_id) ==
    {[i \in DOMAIN f |-> OfferRow(d, f[i])] : f \in Orderings(d, JoinedOffers(d, book_id))}

BookExists(d, isbn13) == \E i \in DOMAIN d.books : d.books[i].isbn13 = isbn13

\* get_book_by_isbn on database d: the values it may return
BookWithOffers(d, id) ==
    {Val([book |-> BookDict(d, id), offers |-> offs]) : offs \in OffersResults(d, id)}

BookAndOffers(d, isbn13) ==
    IF ~BookExists(d, isbn13) THEN {NULL} ELSE BookWithOffers(d, BookRowId(d, isbn13))

(***************************************************************************)
(* State                                                                   *)
(***************************************************************************)
VARIABLES
    db,      \* the committed content of the database file
    conn,    \* per SqliteStore: its sqlite3 connection (in_transaction, and
             \* the uncommitted content it has written, if any)
    writer,  \* the connection holding the file's write lock, if any
    now,     \* datetime('now'), in seconds
    proc,    \* per SqliteStore: where a call being executed statement by
             \* statement stands, and its locals
    call     \* the most recent completed call: store, method, argument,
             \* exception raised, value returned, and whether the completed
             \* call before it was the same call (same store, method, argument)

vars == <<db, conn, writer, now, proc, call>>

\* the model's bounds
MaxOffers == 2

MaxTime == 1

\* the SqliteStore objects (one connection each) open on the database file
Stores == {"c1", "c2", "c3"}

\* the store of the sequential ingestion loop (run_scrape.main's db)
Main == "c1"

IdleProc == [pc |-> "idle"]

ClosedTx == [in_transaction |-> FALSE, work |-> NULL]

\* what the statements of store c read: its own uncommitted writes, else the
\* committed content
View(c) == IF conn[c].work # NULL THEN Get(conn[c].work) ELSE db

OfferRecords(S, P, U, T, I, Pr, St) ==
    [store : S, store_product_id : P, url : U, title : T, isbn : I,
     price_gel : Pr, in_stock : St]

Init ==
    /\ db = EmptyDb
    /\ conn = [c \in Stores |-> ClosedTx]
    /\ writer = NULL
    /\ now = 0
    /\ proc = [c \in Stores |-> IdleProc]
    /\ call = [store |-> Main, op |-> "init_schema", arg |-> NULL, raised |-> "none",
               ret |-> NULL, again |-> FALSE]

Returned(c, op, arg, raised, ret) ==
    call' = [store |-> c, op |-> op, arg |-> arg, raised |-> raised, ret |-> ret,
             again |-> (call.store = c /\ call.op = op /\ call.arg = arg)]

(***************************************************************************)
(* Calls that run uninterrupted (the sequential ingestion loop)            *)
(***************************************************************************)
\* upsert_offer, from BEGIN to its return or raise.  conn.execute("BEGIN")
\* raises OperationalError inside an open transaction.  Nothing in
\* upsert_offer rolls back: a raise leaves the transaction open, with what
\* was written so far and the write lock.
UpsertOfferCall(c, offer) ==
    /\ writer \in {NULL, Val(c)}
    /\ IF conn[c].in_transaction
       THEN /\ Returned(c, "upsert_offer", offer, "OperationalError", NULL)
            /\ UNCHANGED <<db, conn, writer>>
       ELSE \E r \in {UpsertOfferBody(db, offer, now)} :
                /\ Len(r.db.offers) <= MaxOffers
                /\ Returned(c, "upsert_offer", offer, r.raised, NULL)
                /\ IF r.raised = "none"
                   THEN /\ db' = r.db
                        /\ UNCHANGED <<conn, writer>>
                   ELSE /\ conn' = [conn EXCEPT ![c] =
                                      [in_transaction |-> TRUE, work |-> Val(r.db)]]
                        /\ writer' = Val(c)
                        /\ UNCHANGED db

\* upsert_offer, whole
upsert_offer(c, offer) ==
    /\ proc[c].pc = "idle"
    /\ UpsertOfferCall(c, offer)
    /\ UNCHANGED <<now, proc>>

\* get_book_by_isbn, whole
get_book_by_isbn(c, isbn13) ==
    /\ proc[c].pc = "idle"
    /\ \E ret \in BookAndOffers(View(c), isbn13) :
          Returned(c, "get_book_by_isbn", isbn13, "none", ret)
    /\ UNCHANGED <<db, conn, writer, now, proc>>

\* close() and a new SqliteStore(db_path): closing the connection rolls its
\* open transaction back
Reopen(c) ==
    /\ proc[c].pc = "idle"
    /\ conn' = [conn EXCEPT ![c] = ClosedTx]
    /\ writer' = IF writer = Val(c) THEN NULL ELSE writer
    /\ Returned(c, "__init__", NULL, "none", NULL)
    /\ UNCHANGED <<db, now, proc>>

\* a second passes
Tick ==
    /\ now < MaxTime
    /\ now' = now + 1
    /\ UNCHANGED <<db, conn, writer, proc, call>>

(***************************************************************************)
(* Calls of several stores (one connection each, on the same database      *)
(* file), statement by statement.  A connection reads the committed        *)
(* content and its own uncommitted writes.  BEGIN is deferred: the first   *)
(* statement that writes takes the file's write lock and waits (sqlite3's  *)
(* busy timeout) while another connection holds it; the lock is held until *)
(* commit.  A SELECT outside a transaction is a transaction of its own.    *)
(***************************************************************************)
\* the write lock is free for store c, or c holds it
CanWrite(c) == writer \in {NULL, Val(c)}

InFlight == {c \in Stores : proc[c].pc \in {"book", "store_product", "offer", "commit"}}

\* the next statement of store c's upsert_offer writes
NextWrites(c) ==
    \/ proc[c].pc = "book" /\ HasIsbn(proc[c].offer)
    \/ proc[c].pc = "store_product"

\* store c's upsert_offer waits for the write lock
Waits(c) == NextWrites(c) /\ ~CanWrite(c)

\* line 122: conn.execute("BEGIN")
Begin(c, offer) ==
    /\ proc[c].pc = "idle"
    /\ Len(db.offers) + Cardinality(InFlight) < MaxOffers
    /\ IF conn[c].in_transaction
       THEN /\ Returned(c, "upsert_offer", offer, "OperationalError", NULL)
            /\ UNCHANGED <<conn, proc>>
       ELSE /\ conn' = [conn EXCEPT ![c].in_transaction = TRUE]
            /\ proc' = [proc EXCEPT ![c] = [pc |-> "book", offer |-> offer]]
            /\ UNCHANGED call
    /\ UNCHANGED <<db, writer, now>>

\* lines 124-126: book_id = self._upsert_book(...) if offer.isbn
BookStmt(c) ==
    /\ proc[c].pc = "book"
    /\ ~Waits(c)
    /\ \E b \in {BookStep(View(c), proc[c].offer)} :
          /\ proc' = [proc EXCEPT ![c] = [pc |-> "store_product", offer |-> proc[c].offer,
                                          book_id |-> b.book_id]]
          /\ IF HasIsbn(proc[c].offer)
             THEN /\ writer' = Val(c)
                  /\ conn' = [conn EXCEPT ![c].work = Val(b.db)]
             ELSE UNCHANGED <<writer, conn>>
    /\ UNCHANGED <<db, now, call>>

\* lines 128-133: sp_id = self._upsert_store_product(...)
StoreProductStmt(c) ==
    /\ proc[c].pc = "store_product"
    /\ ~Waits(c)
    /\ writer' = Val(c)
    /\ IF StoreProductRaises(proc[c].offer.url)
       THEN /\ conn' = [conn EXCEPT ![c].work = Val(View(c))]
            /\ proc' = [proc EXCEPT ![c] = IdleProc]
            /\ Returned(c, "upsert_offer", proc[c].offer, "IntegrityError", NULL)
       ELSE \E sp \in {StoreProductStep([db |-> View(c), book_id |-> proc[c].book_id],
                                        proc[c].offer)} :
                /\ conn' = [conn EXCEPT ![c].work = Val(sp.db)]
                /\ proc' = [proc EXCEPT ![c] = [pc |-> "offer", offer |-> proc[c].offer,
                                                sp_id |-> sp.id]]
                /\ UNCHANGED call
    /\ UNCHANGED <<db, now>>

\* lines 135-153: last = self._last_offer(sp_id) ... INSERT INTO offers
OfferStmt(c) ==
    /\ proc[c].pc = "offer"
    /\ conn' = [conn EXCEPT ![c].work =
                   Val(OfferStep(View(c), proc[c].sp_id, proc[c].offer, now))]
    /\ proc' = [proc EXCEPT ![c] = [pc |-> "commit", offer |-> proc[c].offer]]
    /\ UNCHANGED <<db, writer, now, call>>

\* line 155: self.conn.commit(); a reading call in progress on another
\* store has one more committed content it could have read
Commit(c) ==
    /\ proc[c].pc = "commit"
    /\ db' = View(c)
    /\ conn' = [conn EXCEPT ![c] = ClosedTx]
    /\ writer' = NULL
    /\ proc' = [e \in Stores |->
                  IF e = c THEN IdleProc
                  ELSE IF proc[e].pc = "offers"
                       THEN [proc[e] EXCEPT !.during = @ \cup {View(c)}]
                       ELSE proc[e]]
    /\ Returned(c, "upsert_offer", proc[c].offer, "none", NULL)
    /\ UNCHANGED now

\* lines 159-161: the first SELECT of get_book_by_isbn.  `during` collects
\* the committed contents of the database while the call runs.
SelectBook(c, isbn13) ==
    /\ proc[c].pc = "idle"
    /\ IF BookExists(View(c), isbn13)
       THEN /\ proc' = [proc EXCEPT ![c] =
                          [pc |-> "offers", isbn13 |-> isbn13,
                           book |-> BookDict(View(c), BookRowId(View(c), isbn13)),
                           during |-> {View(c)}]]
            /\ UNCHANGED call
       ELSE /\ Returned(c, "get_book_by_isbn", isbn13, "none", NULL)
            /\ UNCHANGED proc
    /\ UNCHANGED <<db, conn, writer, now>>

\* lines 163-182: the second SELECT of get_book_by_isbn, and its return
SelectOffers(c) ==
    /\ proc[c].pc = "offers"
    /\ \E offs \in OffersResults(View(c), proc[c].book.id) :
          Returned(c, "get_book_by_isbn", proc[c].isbn13, "none",
                   Val([book |-> proc[c].book, offers |-> offs]))
    /\ proc' = [proc EXCEPT ![c] = IdleProc]
    /\ UNCHANGED <<db, conn, writer, now>>

(***************************************************************************)
(* Inputs                                                                  *)
(***************************************************************************)
StoreNames == {"biblusi"}

ProductIds == {"1", "2"}

Isbns == {"i1", "i2"}

Titles == {NULL, Val(<<"A">>), Val(<<"!">>)}

Prices == {NULL, Val(10), Val(12)}

Stocks == {NULL, Val(TRUE), Val(FALSE)}

\* the observed offers of Spec: two products, with and without an isbn and a
\* title, one reading
Offers ==
    OfferRecords(StoreNames, ProductIds, {Val("u1")}, Titles,
                 {NULL} \cup {Val(i) : i \in Isbns}, {Val(10)}, {Val(TRUE)})

\* the observed offers of SpecLedger: two products of one book; every kind
\* of reading of the first (price absent or present, stock absent, true or
\* false, and a second price), two readings of the second
LedgerOffers ==
    OfferRecords(StoreNames, {"1"}, {Val("u1")}, {NULL}, {Val("i1")},
                 {NULL, Val(10)}, Stocks)
    \cup OfferRecords(StoreNames, ProductIds, {Val("u1")}, {NULL}, {Val("i1")},
                      {Val(10), Val(12)}, {Val(TRUE)})

\* the observed offers of SpecFail: one product, with an isbn, an empty one
\* and none, with a url and with the url missing
FailOffers ==
    OfferRecords(StoreNames, {"1"}, {Val("u1"), Val("u2"), NULL}, {Val(<<"A">>)},
                 {NULL, Val(""), Val("i1")}, {Val(10), Val(12)}, {Val(TRUE)})

\* the sequential ingestion loop and the reads of one store
Sequential(offers) ==
    \/ \E offer \in offers : upsert_offer(Main, offer)
    \/ \E isbn13 \in Isbns : get_book_by_isbn(Main, isbn13)
    \/ Reopen(Main)
    \/ Tick

Next == Sequential(Offers)

Spec == Init /\ [][Next]_vars

NextLedger == Sequential(LedgerOffers)

SpecLedger == Init /\ [][NextLedger]_vars

\* the observed offers of SpecConc: one key, with and without isbn and title
ConcOffers ==
    OfferRecords(StoreNames, {"1"}, {Val("u1")}, {NULL, Val(<<"A">>)},
                 {NULL, Val("i1")}, {Val(10), Val(12)}, {Val(TRUE)})

\* the stores that ingest concurrently, and the store that reads
Writers == {"c1", "c2"}

Reader == "c3"

NextFail == Sequential(FailOffers)

SpecFail == Init /\ [][NextFail]_vars

WriterStep(c) ==
    \/ \E offer \in ConcOffers : Begin(c, offer)
    \/ BookStmt(c)
    \/ StoreProductStmt(c)
    \/ OfferStmt(c)
    \/ Commit(c)

ReaderStep(c) ==
    \/ SelectBook(c, "i1")
    \/ SelectOffers(c)

NextConc ==
    \/ \E c \in Writers : WriterStep(c)
    \/ ReaderStep(Reader)
    \/ Tick

SpecConc == Init /\ [][NextConc]_vars

(***************************************************************************)
(* Properties                                                              *)
(***************************************************************************)
\* the call that made the step, when the step is a call
UpsertReturned == call'.op = "upsert_offer" /\ call'.raised = "none"

ProductKnown(d, offer) ==
    \E i \in DOMAIN d.store_products :
        /\ d.store_products[i].store = offer.store
        /\ d.store_products[i].store_product_id = offer.store_product_id

ProductOf(d, offer) == StoreProductRowId(d, offer.store, offer.store_product_id)

\* C1: an upsert_offer that repeats the call before it (the identical
\* observed offer) inserts no offers row, and the upsert_offer that first
\* sights a store product leaves it exactly one row: two identical calls
\* leave exactly one snapshot, the first inserting one and the second none.
C1_IdenticalOfferInsertsOnce ==
    [][UpsertReturned =>
          /\ call'.again => db'.offers = db.offers
          /\ ~ProductKnown(db, call'.arg) =>
                Cardinality(OffersOf(db', ProductOf(db', call'.arg))) = 1]_vars

\* C1 witness: the second of two identical calls has returned, for a reading
\* with no price and stock false, and the product has one snapshot
C1_Witness ==
    /\ call.op = "upsert_offer" /\ call.raised = "none" /\ call.again
    /\ call.arg.price_gel = NULL /\ call.arg.in_stock = Val(FALSE)
    /\ Cardinality(OffersOf(db, ProductOf(db, call.arg))) = 1

\* snapshot i comes before snapshot j in the history: by capture time, ties
\* by surrogate id
Before(d, i, j) ==
    \/ d.offers[i].captured_at < d.offers[j].captured_at
    \/ d.offers[i].captured_at = d.offers[j].captured_at /\ i < j

\* i and j are consecutive snapshots of one store product
Consecutive(d, i, j) ==
    /\ d.offers[i].store_product_id = d.offers[j].store_product_id
    /\ Before(d, i, j)
    /\ ~\E k \in OffersOf(d, d.offers[i].store_product_id) : Before(d, i, k) /\ Before(d, k, j)

SameReading(d, i, j) ==
    /\ d.offers[i].price_gel = d.offers[j].price_gel
    /\ d.offers[i].in_stock = d.offers[j].in_stock

\* C2: in a store product's history ordered by capture time, ties by id, two
\* consecutive snapshots differ in price or in stock.
C2_ConsecutiveSnapshotsDiffer ==
    \A i, j \in DOMAIN db.offers : Consecutive(db, i, j) => ~SameReading(db, i, j)

\* C2 witness: a product with two snapshots captured in the same second
C2_Witness ==
    \E i, j \in DOMAIN db.offers :
        /\ Consecutive(db, i, j)
        /\ db.offers[i].captured_at = db.offers[j].captured_at

BookIdsKept(d, e) ==
    \A i \in DOMAIN d.store_products :
        d.store_products[i].book_id # NULL =>
            e.store_products[i].book_id = d.store_products[i].book_id

\* C3: a store product linked to a book keeps that link through every later
\* upsert_offer, also one that carries another isbn.
C3_FirstIsbnWins == [][UpsertReturned => BookIdsKept(db, db')]_vars

\* C4: an upsert_offer whose offer has no isbn leaves the book_id of every
\* store product that has one unchanged.
C4_LinkKeptWithoutIsbn ==
    [][(UpsertReturned /\ ~HasIsbn(call'.arg)) => BookIdsKept(db, db')]_vars

\* C4 witness: an offer without isbn has been upserted for a store product
\* that is linked to a book
C4_Witness ==
    /\ call.op = "upsert_offer" /\ call.raised = "none" /\ ~HasIsbn(call.arg)
    /\ ProductKnown(db, call.arg)
    /\ db.store_products[ProductOf(db, call.arg)].book_id # NULL

TitlesKept(d, e) ==
    \A i \in DOMAIN d.books : d.books[i].title # NULL => e.books[i].title = d.books[i].title

\* C5 as claimed: the title of a book that has one is never changed by an
\* upsert_offer.
C5_KnownTitleNeverOverwritten == [][UpsertReturned => TitlesKept(db, db')]_vars

\* C5 as amended: an upsert_offer with the isbn of an existing book sets the
\* book's title to the incoming title when that is not null and leaves it
\* when it is null; every other book's title is left.
C5_LastNonNullTitleWins ==
    [][UpsertReturned =>
          \A i \in DOMAIN db.books :
              db'.books[i].title =
                  IF HasIsbn(call'.arg) /\ db.books[i].isbn13 = Get(call'.arg.isbn)
                  THEN Coalesce(call'.arg.title, db.books[i].title)
                  ELSE db.books[i].title]_vars

\* C5 witness: an offer with no title has been upserted for a book that has
\* a title
C5_Witness ==
    /\ call.op = "upsert_offer" /\ call.raised = "none" /\ HasIsbn(call.arg)
    /\ call.arg.title = NULL
    /\ db.books[BookRowId(db, Get(call.arg.isbn))].title # NULL

UniqueKeys(d) ==
    /\ \A i, j \in DOMAIN d.books : d.books[i].isbn13 = d.books[j].isbn13 => i = j
    /\ \A i, j \in DOMAIN d.store_products :
          (/\ d.store_products[i].store = d.store_products[j].store
           /\ d.store_products[i].store_product_id = d.store_products[j].store_product_id)
              => i = j

\* C6: there is at most one book per isbn13 and at most one store product
\* per (store, store_product_id), in the committed database and in what the
\* store reads.
C6_UniqueKeys == UniqueKeys(db) /\ UniqueKeys(View(Main))

\* C6 witness: both products and both books exist and an offer has been
\* upserted a second time
C6_Witness ==
    /\ call.op = "upsert_offer" /\ call.raised = "none" /\ call.again
    /\ HasIsbn(call.arg)
    /\ Len(db.books) = 2 /\ Len(db.store_products) = 2

\* a call in flight can execute its next statement
CanProceed == \E c \in InFlight : ~Waits(c)

\* C7: with upsert_offer calls of several stores interleaved statement by
\* statement on one key, no store ever reads, and the database never holds,
\* two store products of one key or two books of one isbn; no call raises;
\* and while calls are in flight one of them can go on (none waits for the
\* other for ever).
C7_ConcurrentUpsertsConverge ==
    /\ UniqueKeys(db)
    /\ \A c \in Stores : UniqueKeys(View(c))
    /\ call.op = "upsert_offer" => call.raised = "none"
    /\ InFlight # {} => CanProceed

\* C7 witness: two calls for the same new key are in flight; one has written
\* the book and the store product and is about to commit, the other waits
\* to upsert the same book
C7_Witness ==
    /\ proc["c1"].pc = "book" /\ Waits("c1") /\ proc["c2"].pc = "commit"
    /\ proc["c1"].offer.store_product_id = proc["c2"].offer.store_product_id
    /\ proc["c1"].offer.isbn = proc["c2"].offer.isbn /\ HasIsbn(proc["c1"].offer)
    /\ ProductKnown(View("c2"), proc["c2"].offer)
    /\ ~ProductKnown(db, proc["c2"].offer)

\* C9: what a get_book_by_isbn returns while upsert_offer calls of other
\* stores are in flight is what it would return on one committed content of
\* the database, as it was before or after one of those calls.
C9_ReadSeesOneCommittedState ==
    [][(proc[Reader].pc = "offers" /\ proc'[Reader].pc = "idle") =>
          \E d \in proc[Reader].during : call'.ret \in BookAndOffers(d, proc[Reader].isbn13)]_vars

\* C8: an upsert_offer that raises leaves what the store reads as it was
\* before the call, and leaves the store with no open transaction, ready for
\* the next upsert_offer.
C8_RaiseRollsBack ==
    [][(call'.op = "upsert_offer" /\ call'.raised # "none") =>
          /\ View(Main)' = View(Main)
          /\ ~conn'[Main].in_transaction]_vars

\* the store products linked to the book, with a snapshot
LinkedProducts(d, book_id) ==
    {sp \in DOMAIN d.store_products :
        d.store_products[sp].book_id = Val(book_id) /\ OffersOf(d, sp) # {}}

\* the latest snapshot of the ledger (the one _last_offer compares with), as
\* an offer view
LatestView(d, sp) == OfferRow(d, LastOfferId(d, sp))

\* C10: what get_book_by_isbn returns for an existing book is one offer per
\* linked store product, each the product's latest snapshot by captured_at,
\* ties by the greatest id.
C10_OneLatestOfferPerProduct ==
    (call.op = "get_book_by_isbn" /\ call.ret # NULL) =>
        \E f \in [DOMAIN Get(call.ret).offers ->
                     LinkedProducts(View(call.store), Get(call.ret).book.id)] :
            /\ \A sp \in LinkedProducts(View(call.store), Get(call.ret).book.id) :
                  \E i \in DOMAIN f : f[i] = sp
            /\ \A i, j \in DOMAIN f : f[i] = f[j] => i = j
            /\ \A i \in DOMAIN f :
                  Get(call.ret).offers[i] = LatestView(View(call.store), f[i])

\* the order the offers of a comparison are to come in: known stock before
\* unknown, in stock before out of stock, then price ascending with an
\* absent price last
ComparisonKey(row) ==
    <<IF row.in_stock = NULL THEN 1 ELSE 0,
      IF row.in_stock = NULL THEN 2 ELSE 1 - Get(row.in_stock),
      IF row.price_gel = NULL THEN 1000 ELSE Get(row.price_gel)>>

\* C11: the offers get_book_by_isbn returns are ordered by known stock
\* before unknown, in stock before out of stock, and price ascending with an
\* absent price last within the same stock.
C11_OffersOrderedNullPriceLast ==
    (call.op = "get_book_by_isbn" /\ call.ret # NULL) =>
        \A i, j \in DOMAIN Get(call.ret).offers :
            i < j => ~KeyLess(ComparisonKey(Get(call.ret).offers[j]),
                              ComparisonKey(Get(call.ret).offers[i]))

\* the observed offers of SpecRead: two products told apart by their url,
\* each with an isbn, an empty one and none, with and without a title
ReadOffers ==
    OfferRecords(StoreNames, {"1"}, {Val("u1")}, {NULL, Val(<<"A">>)},
                 {NULL, Val(""), Val("i1")}, {Val(10)}, {Val(TRUE)})
    \cup OfferRecords(StoreNames, {"2"}, {Val("u2")}, {NULL, Val(<<"A">>)},
                      {NULL, Val(""), Val("i1")}, {Val(10)}, {Val(TRUE)})

NextRead == Sequential(ReadOffers)

SpecRead == Init /\ [][NextRead]_vars

\* the call that made the step is a get_book_by_isbn
ReadReturned == call.op = "get_book_by_isbn"

\* the store products a returned offer can come from: same store and url
RowProducts(d, row) ==
    {i \in DOMAIN d.store_products :
        d.store_products[i].store = row.store /\ d.store_products[i].url = row.url}

\* store product i has a book in e and had none in d (or did not exist)
NewlyLinked(d, e, i) ==
    /\ e.store_products[i].book_id # NULL
    /\ i \in DOMAIN d.store_products => d.store_products[i].book_id = NULL

\* C12: get_book_by_isbn returns None exactly when the store reads no book
\* of that isbn13; otherwise it returns that book, and every offer returned
\* comes from a store product linked to it; and a store product gets a book
\* only by an upsert_offer that names it and carries an isbn, so one never
\* sighted with an isbn is in no result.
C12_NotFoundIffNoBook ==
    /\ [](ReadReturned =>
            /\ call.ret = NULL <=> ~BookExists(View(call.store), call.arg)
            /\ call.ret # NULL =>
                  /\ Get(call.ret).book.isbn13 = call.arg
                  /\ \A k \in DOMAIN Get(call.ret).offers :
                        \A i \in RowProducts(View(call.store), Get(call.ret).offers[k]) :
                            View(call.store).store_products[i].book_id
                                = Val(Get(call.ret).book.id))
    /\ [][\A i \in DOMAIN db'.store_products :
             NewlyLinked(db, db', i) =>
                 /\ UpsertReturned /\ HasIsbn(call'.arg)
                 /\ i = ProductOf(db', call'.arg)]_vars

\* C12 witness: a book is returned with the one offer of its product while a
\* second store product, never sighted with an isbn, has a snapshot too
C12_Witness ==
    /\ ReadReturned /\ call.ret # NULL
    /\ Len(Get(call.ret).offers) = 1
    /\ Len(db.store_products) = 2 /\ Len(db.offers) = 2
    /\ \E i \in DOMAIN db.store_products : db.store_products[i].book_id = NULL

\* every row of the sequence rows is still in rows2, at its place
RowsKept(rows, rows2) ==
    \A i \in DOMAIN rows : i \in DOMAIN rows2 /\ rows2[i] = rows[i]

\* every book and store product of d is still in e, under its key
KeysKept(d, e) ==
    /\ \A i \in DOMAIN d.books :
          i \in DOMAIN e.books /\ e.books[i].isbn13 = d.books[i].isbn13
    /\ \A i \in DOMAIN d.store_products :
          /\ i \in DOMAIN e.store_products
          /\ e.store_products[i].store = d.store_products[i].store
          /\ e.store_products[i].store_product_id = d.store_products[i].store_product_id

\* C13: every step leaves every stored offers row as it was (store product,
\* captured_at, price_gel, in_stock) and removes none, and no book and no
\* store product; the offers grow by at most one row, only in an
\* upsert_offer, and the new row belongs to the store product the offer names.
C13_LedgerAppendOnly ==
    [][/\ RowsKept(db.offers, db'.offers)
       /\ KeysKept(db, db')
       /\ Len(db'.offers) <= Len(db.offers) + 1
       /\ Len(db'.offers) > Len(db.offers) =>
             /\ UpsertReturned
             /\ db'.offers[Len(db'.offers)].store_product_id = ProductOf(db', call'.arg)]_vars

\* C13 witness: an upsert_offer has added a second snapshot, of another
\* reading, to a store product that had one
C13_Witness ==
    /\ call.op = "upsert_offer" /\ call.raised = "none"
    /\ Len(db.offers) = 2
    /\ db.offers[1].store_product_id = db.offers[2].store_product_id
    /\ db.offers[2].store_product_id = ProductOf(db, call.arg)
    /\ ~SameReading(db, 1, 2)

(***************************************************************************)
(* search_books                                                            *)
(***************************************************************************)
\* SQLite's LIKE compares the ASCII letters without regard to case
AsciiFold(c) ==
    CASE c = "A" -> "a"
      [] c = "B" -> "b"
      [] OTHER -> c

\* title_norm LIKE '%' || qn || '%'.  qn is "" or a result of title_norm,
\* which holds neither of the LIKE wildcards % and _ (they are not kept).
Like(t, qn) ==
    \E k \in 0..(Len(t) - Len(qn)) :
        \A j \in 1..Len(qn) : AsciiFold(t[k + j]) = AsciiFold(qn[j])

\* `title_norm(q) or ""`
QueryNorm(q) == IF title_norm(Val(q)) = NULL THEN <<>> ELSE Get(title_norm(Val(q)))

\* the WHERE of lines 187-190: a NULL title_norm is LIKE nothing
SearchMatches(d, qn) ==
    {i \in DOMAIN d.books :
        d.books[i].title_norm # NULL /\ Like(Get(d.books[i].title_norm), qn)}

\* ORDER BY id DESC LIMIT n
RECURSIVE OrderByIdDescLimit(_, _)
OrderByIdDescLimit(S, n) ==
    IF S = {} \/ n = 0 THEN <<>>
    ELSE <<Max(S)>> \o OrderByIdDescLimit(S \ {Max(S)}, n - 1)

\* the columns SELECT id, isbn13, title
SearchRow(d, i) == [id |-> i, isbn13 |-> d.books[i].isbn13, title |-> d.books[i].title]

SearchRows(d, ids) == [k \in DOMAIN ids |-> SearchRow(d, ids[k])]

\* search_books, whole
search_books(c, q, limit) ==
    /\ proc[c].pc = "idle"
    /\ Returned(c, "search_books", [q |-> q, limit |-> limit], "none",
                SearchRows(View(c), OrderByIdDescLimit(SearchMatches(View(c), QueryNorm(q)),
                                                       limit)))
    /\ UNCHANGED <<db, conn, writer, now, proc>>

\* the queries of SpecSearch: empty, punctuation only, a letter, a letter in
\* capitals, two letters, a word no title has
Queries == {<<>>, <<"!">>, <<"a">>, <<"B">>, <<"a", "b">>, <<"7">>}

Limits == {1, 2}

\* the observed offers of SpecSearch: two books, each of one product, with
\* no title, a one-letter title, a two-letter title and a title of
\* punctuation only
SearchOffers ==
    OfferRecords(StoreNames, {"1"}, {Val("u1")},
                 {NULL, Val(<<"A">>), Val(<<"a", "B">>), Val(<<"!">>)},
                 {Val("i1")}, {Val(10)}, {Val(TRUE)})
    \cup OfferRecords(StoreNames, {"2"}, {Val("u1")},
                      {NULL, Val(<<"A">>), Val(<<"a", "B">>), Val(<<"!">>)},
                      {Val("i2")}, {Val(10)}, {Val(TRUE)})

NextSearch ==
    \/ \E offer \in SearchOffers : upsert_offer(Main, offer)
    \/ \E q \in Queries, limit \in Limits : search_books(Main, q, limit)

SpecSearch == Init /\ [][NextSearch]_vars

\* p occurs in t as a contiguous subsequence
IsSubstring(p, t) ==
    \E k \in 0..(Len(t) - Len(p)) : SubSeq(t, k + 1, k + Len(p)) = p

\* the books a search for q is to find: those whose title_norm contains the
\* normalized query; none when the query normalizes to null
Containing(d, q) ==
    IF title_norm(Val(q)) = NULL THEN {}
    ELSE {i \in DOMAIN d.books :
             /\ d.books[i].title_norm # NULL
             /\ IsSubstring(Get(title_norm(Val(q))), Get(d.books[i].title_norm))}

MaxTitleLen == 3

\* one character of every kind title_norm tells apart
Alphabet ==
    {" ", "\t", "'", "(", "!", "a", "A", "7", "cyr_io", "CYR_IO", "geo_an", "GEO_AN",
     "nus_an"}

\* None, and the strings of at most MaxTitleLen characters
NormInputs == {NULL} \cup {Val(s) : s \in UNION {[1..k -> Alphabet] : k \in 0..MaxTitleLen}}

InitNorm ==
    /\ db = EmptyDb
    /\ conn = [c \in Stores |-> ClosedTx]
    /\ writer = NULL
    /\ now = 0
    /\ proc = [c \in Stores |-> IdleProc]
    /\ \E x \in NormInputs :
          call = [store |-> Main, op |-> "input", arg |-> x, raised |-> "none",
                  ret |-> NULL, again |-> FALSE]

\* title_norm is called on the input, then on what it returned
Normalize(x) ==
    /\ call' = [store |-> Main, op |-> "title_norm", arg |-> x, raised |-> "none",
                ret |-> title_norm(x), again |-> call.op = "title_norm"]
    /\ UNCHANGED <<db, conn, writer, now, proc>>

NextNorm ==
    \/ call.op = "input" /\ Normalize(call.arg)
    \/ call.op = "title_norm" /\ ~call.again /\ Normalize(call.ret)

SpecNorm == InitNorm /\ [][NextNorm]_vars

\* s is None, empty or whitespace only
Blank(s) == s = NULL \/ \A i \in DOMAIN Get(s) : Get(s)[i] \in Whitespace

\* C15: title_norm applied to its own result returns that result, for every
\* input; for None, the empty string and whitespace-only input the result
\* is None.
C15_NormalizeIdempotent ==
    call.op = "title_norm" =>
        /\ call.again => call.ret = call.arg
        /\ Blank(call.arg) => call.ret = NULL

\* C15 witness: title_norm has been applied a second time, to a result that
\* is a string with a space inside
C15_Witness ==
    /\ call.op = "title_norm" /\ call.again
    /\ call.ret # NULL /\ Len(Get(call.ret)) = 3 /\ Get(call.ret)[2] = " "

\* the latest snapshot of store product sp: the last by capture time, ties
\* by surrogate id
LatestSnapshot(d, sp) ==
    CHOOSE i \in OffersOf(d, sp) : \A j \in OffersOf(d, sp) \ {i} : Before(d, j, i)

\* the stock of a stored snapshot as null, true or false
StockOf(row) == IF row.in_stock = NULL THEN NULL ELSE Val(Get(row.in_stock) = 1)

\* the reading of the offer is new for its store product in d
ReadingIsNew(d, offer) ==
    \/ ~ProductKnown(d, offer)
    \/ OffersOf(d, ProductOf(d, offer)) = {}
    \/ d.offers[LatestSnapshot(d, ProductOf(d, offer))].price_gel # offer.price_gel
    \/ StockOf(d.offers[LatestSnapshot(d, ProductOf(d, offer))]) # offer.in_stock

\* C16: an upsert_offer inserts a snapshot if and only if its store product
\* has none, or the price differs from the latest snapshot's, or the stock
\* (null, true or false) differs from the latest snapshot's.
C16_InsertIffReadingChanged ==
    [][UpsertReturned =>
          /\ Len(db'.offers) = Len(db.offers) + 1 <=> ReadingIsNew(db, call'.arg)
          /\ Len(db'.offers) = Len(db.offers) <=> ~ReadingIsNew(db, call'.arg)]_vars

\* C16 witness: a product read with stock unknown and then, at the same
\* price, in stock has two snapshots
C16_Witness ==
    /\ call.op = "upsert_offer" /\ call.raised = "none"
    /\ Len(db.offers) = 2
    /\ db.offers[1].store_product_id = db.offers[2].store_product_id
    /\ db.offers[1].price_gel = db.offers[2].price_gel
    /\ db.offers[1].in_stock = NULL /\ db.offers[2].in_stock = Val(1)

\* C17: in every state the title_norm of every book is title_norm of its
\* stored title, in the committed database and in what the store reads.
C17_TitleNormFollowsTitle ==
    /\ \A i \in DOMAIN db.books : db.books[i].title_norm = title_norm(db.books[i].title)
    /\ \A i \in DOMAIN View(Main).books :
          View(Main).books[i].title_norm = title_norm(View(Main).books[i].title)

\* the observed offer carries no isbn: absent or empty
NoIsbn(offer) == offer.isbn = NULL \/ Get(offer.isbn) = ""

\* C18: an upsert_offer whose offer has no isbn (absent or empty) leaves the
\* books as they were, and a store product it creates has no book.
C18_NoIsbnLeavesBooks ==
    [][(UpsertReturned /\ NoIsbn(call'.arg)) =>
          /\ db'.books = db.books
          /\ ~ProductKnown(db, call'.arg) =>
                db'.store_products[ProductOf(db', call'.arg)].book_id = NULL]_vars

\* C18 witness: an offer with an empty isbn and a title has been upserted
\* for a second store product, which has no book, while the book of the
\* first has no title
C18_Witness ==
    /\ call.op = "upsert_offer" /\ call.raised = "none"
    /\ call.arg.isbn = Val("") /\ call.arg.title # NULL
    /\ Len(db.books) = 1 /\ db.books[1].title = NULL
    /\ Len(db.store_products) = 2
    /\ ProductOf(db, call.arg) = 2
    /\ db.store_products[2].book_id = NULL

\* the store products linked to the book, whether or not they have a snapshot
ProductsOfBook(d, book_id) ==
    {sp \in DOMAIN d.store_products : d.store_products[sp].book_id = Val(book_id)}

\* C19: in every committed state every store product has at least one
\* offers row, and get_book_by_isbn returns, for every store product linked
\* to the book, an offer of that store product.
C19_EveryProductHasSnapshot ==
    /\ \A sp \in DOMAIN db.store_products : OffersOf(db, sp) # {}
    /\ (ReadReturned /\ call.ret # NULL /\ View(call.store) = db) =>
          \A sp \in ProductsOfBook(db, Get(call.ret).book.id) :
              \E k \in DOMAIN Get(call.ret).offers :
                  /\ Get(call.ret).offers[k].store = db.store_products[sp].store
                  /\ Get(call.ret).offers[k].url = db.store_products[sp].url

\* C19 witness: a book with two linked store products has been returned,
\* with two offers
C19_Witness ==
    /\ ReadReturned /\ call.ret # NULL
    /\ Cardinality(ProductsOfBook(db, Get(call.ret).book.id)) = 2
    /\ Len(Get(call.ret).offers) = 2

(***************************************************************************)
(* scrape_adapter: the ingestion loop over one listing.  It runs in one    *)
(* thread; every iteration ends (the fetch returns or raises, the sleep    *)
(* ends), so the loop is weakly fair.                                      *)
(***************************************************************************)
MaxProducts == 3

\* what list_products_fn() may return: the listed products, in order
Listings == UNION {[1..n -> ProductIds] : n \in 0..MaxProducts}

\* what fetch_offer_fn(p) does: it raises requests.RequestException (NULL),
\* or returns the offer of p, with its url or with the url missing
FetchResults(p) ==
    {NULL}
    \cup {Val(o) : o \in OfferRecords(StoreNames, {p}, {Val("u1"), NULL}, {NULL},
                                      {Val("i1")}, {Val(10)}, {Val(TRUE)})}

\* a variant of NextIndexOnError: the except clause leaves the loop
NextIndexOnErrorBreak(i, n) == n + 1

\* lines 26-30: the except clause prints and falls through to the sleep;
\* the for statement goes on with the next index
NextIndexOnError(i, n) == i + 1

\* line 14: products = list_products_fn()
StartScrape(c, products) ==
    /\ proc[c].pc = "idle"
    /\ proc' = [proc EXCEPT ![c] =
                   [pc |-> "scrape", products |-> products, i |-> 1,
                    fetched |-> <<>>, upserted |-> <<>>]]
    /\ UNCHANGED <<db, conn, writer, now, call>>

\* lines 17-30: one iteration.  `fetched` and `upserted` record the calls
\* of fetch_offer_fn (index, and whether it returned) and of upsert_fn
\* (index).  An exception of upsert_fn is no RequestException: it leaves
\* scrape_adapter.
ScrapeIteration(c) ==
    /\ proc[c].pc = "scrape"
    /\ proc[c].i <= Len(proc[c].products)
    /\ \E res \in FetchResults(proc[c].products[proc[c].i]) :
          IF res = NULL
          THEN /\ proc' = [proc EXCEPT
                              ![c].fetched = Append(@, [i |-> proc[c].i, ok |-> FALSE]),
                              ![c].i = NextIndexOnError(proc[c].i, Len(proc[c].products))]
               /\ UNCHANGED <<db, conn, writer, call>>
          ELSE /\ UpsertOfferCall(c, Get(res))
               /\ proc' = [proc EXCEPT
                              ![c].fetched = Append(@, [i |-> proc[c].i, ok |-> TRUE]),
                              ![c].upserted = Append(@, proc[c].i),
                              ![c].i = IF call'.raised = "none" THEN @ + 1 ELSE @,
                              ![c].pc = IF call'.raised = "none" THEN @ ELSE "raised"]
    /\ UNCHANGED now

\* the for statement is exhausted: scrape_adapter returns
ScrapeReturn(c) ==
    /\ proc[c].pc = "scrape"
    /\ proc[c].i > Len(proc[c].products)
    /\ proc' = [proc EXCEPT ![c].pc = "done"]
    /\ UNCHANGED <<db, conn, writer, now, call>>

ScrapeStep(c) == ScrapeIteration(c) \/ ScrapeReturn(c)

NextScrape ==
    \/ \E products \in Listings : StartScrape(Main, products)
    \/ ScrapeStep(Main)

SpecScrape == Init /\ [][NextScrape]_vars

SpecScrapeFair == SpecScrape /\ WF_vars(ScrapeStep(Main))

Scraping == proc[Main].pc = "scrape"

ScrapeDone == proc[Main].pc = "done"

ScrapeRaised == proc[Main].pc = "raised"

\* the fetches so far are those of the products before index i, each once,
\* in listing order; the upserts are of fetched products whose fetch
\* returned, each at most once, in order
LoopInOrder(p) ==
    /\ \A k \in DOMAIN p.fetched : p.fetched[k].i = k
    /\ Len(p.fetched) <= Len(p.products)
    /\ \A k \in DOMAIN p.upserted :
          /\ p.upserted[k] \in DOMAIN p.fetched
          /\ p.fetched[p.upserted[k]].ok
    /\ \A k, l \in DOMAIN p.upserted : k < l => p.upserted[k] < p.upserted[l]

\* C20: scrape_adapter fetches every listed product once, in listing order,
\* and upserts at most once per product and only after its fetch returned;
\* when it returns, every listed product was fetched, whatever fetches
\* raised RequestException; and it does return unless an upsert raises.
C20_LoopAttemptsEveryProduct ==
    /\ []((Scraping \/ ScrapeDone \/ ScrapeRaised) => LoopInOrder(proc[Main]))
    /\ [](Scraping => Len(proc[Main].fetched) = proc[Main].i - 1)
    /\ [](ScrapeDone => Len(proc[Main].fetched) = Len(proc[Main].products))
    /\ [](ScrapeRaised => call.op = "upsert_offer" /\ call.raised # "none")
    /\ (Scraping ~> (ScrapeDone \/ ScrapeRaised))

\* C20 witness: the loop has returned from a listing of three products, the
\* first fetch having raised and the third having been upserted
C20_Witness ==
    /\ ScrapeDone
    /\ Len(proc[Main].products) = 3
    /\ ~proc[Main].fetched[1].ok
    /\ proc[Main].upserted = <<2, 3>>

====
